---- MODULE Spec2Model ----
(***************************************************************************)
(* Model of the pokemon image pipeline (pokemon_optimizado2.py):           *)
(*   main() = download_pokemon() on a ThreadPoolExecutor, then             *)
(*            process_pokemon() on a ProcessPoolExecutor.                  *)
(* A run is either main() or a direct call of download_single_pokemon      *)
(* with an arbitrary retry_count (the function is public and takes the     *)
(* attempt budget as an argument).                                         *)
(***************************************************************************)
EXTENDS Integers, Sequences, FiniteSets, TLC

\* ------------------------------------------------------------------ bounds
MaxN == 3            \* largest n given to download_pokemon
MaxWorkers == 2      \* largest max_workers given to either pool
MaxRetry == 3        \* largest retry_count of a direct call

\* --------------------------------------------------------- program constants
RETRY_COUNT == 2     \* download_args: (i, dir_name, base_url, 2)

\* ------------------------------------------------------------- file names
RECURSIVE Digits(_)
Digits(i) == IF i < 10 THEN <<i>> ELSE Digits(i \div 10) \o <<i % 10>>

RECURSIVE ZeroPad(_, _)
ZeroPad(s, width) == IF Len(s) >= width THEN s ELSE ZeroPad(<<0>> \o s, width)

\* a naming that sends two ids to one file
file_name_halved(i) == [stem |-> ZeroPad(Digits((i + 1) \div 2), 3), ext |-> "png"]

\* f'{i:03d}.png'
file_name(i) == [stem |-> ZeroPad(Digits(i), 3), ext |-> "png"]

\* a filter that lets every file of the directory through
IsPng_any(f) == TRUE

\* f.endswith('.png')
IsPng(f) == f.ext = "png"

\* lexicographic order of the stems (sorted() on the names)
RECURSIVE SeqLess(_, _)
SeqLess(a, b) ==
    IF Len(a) = 0 THEN Len(b) > 0
    ELSE IF Len(b) = 0 THEN FALSE
    ELSE IF Head(a) # Head(b) THEN Head(a) < Head(b)
    ELSE SeqLess(Tail(a), Tail(b))

NameLess(f, g) == SeqLess(f.stem, g.stem)

RECURSIVE sorted(_)
sorted(S) ==
    IF S = {} THEN <<>>
    ELSE LET m == CHOOSE x \in S : \A y \in S \ {x} : NameLess(x, y)
         IN <<m>> \o sorted(S \ {m})

\* a directory: file name -> content; writing a file creates or overwrites it
WriteFile(dir, f, content) ==
    [x \in DOMAIN dir \cup {f} |-> IF x = f THEN content ELSE dir[x]]

RemoveFile(dir, f) == [x \in DOMAIN dir \ {f} |-> dir[x]]

EmptyDir == [x \in {} |-> "valid"]

Range(s) == {s[k] : k \in DOMAIN s}

Count(s, v) == Cardinality({k \in DOMAIN s : s[k] = v})

VARIABLES
    pc,                    \* position of the caller (main thread)
    error,                 \* exception that left the caller, "none" if none
    n,                     \* download_pokemon's n
    io_workers,            \* max_workers of the thread pool
    cpu_workers,           \* max_workers of the process pool
    dir0,                  \* what dir_name held when the run started
    inDir,                 \* dir_name of phase A = dir_origin of phase B
    outDir,                \* dir_name of phase B
    dl,                    \* download tasks: id -> task record
    dl_queue,              \* work queue of the thread pool
    dl_futures,            \* futures submitted so far, in submission order
    dl_yielded,            \* how often as_completed has yielded each future
    successful_downloads,
    failed_downloads,
    summaryA,              \* what download_pokemon reported when it returned
    images,                \* sorted listing of dir_origin
    pr,                    \* transform tasks, one per entry of images
    pr_queue,              \* work queue of the process pool
    pr_futures,
    pr_yielded,
    successful_processing,
    failed_processing,
    ps                     \* parallel_search of test.py: arguments and locals

vars == <<ps, pc, error, n, io_workers, cpu_workers, dir0, inDir, outDir,
          dl, dl_queue, dl_futures, dl_yielded, successful_downloads,
          failed_downloads, summaryA,
          images, pr, pr_queue, pr_futures, pr_yielded,
          successful_processing, failed_processing>>

dlVars == <<dl, dl_queue, dl_futures, dl_yielded, successful_downloads,
            failed_downloads>>
prVars == <<images, pr, pr_queue, pr_futures, pr_yielded,
            successful_processing, failed_processing>>

NoSummary == [total |-> -1, success |-> -1, failed |-> {}]

\* parallel_search has not been called
NoSearch ==
    [step |-> "none", data |-> <<>>, target |-> 0, n_cores |-> 1,
     chunk_size |-> 0, i |-> 0, chunks |-> <<>>,
     processes |-> <<>>, joined |-> 0, queue |-> <<>>, results |-> <<>>,
     report |-> <<>>]

\* args of one download task and the task's local state
NewDownload(i, retry_count) ==
    [retry_count |-> retry_count,
     st          |-> "new",
     attempt     |-> 0,
     log         |-> <<>>,
     result      |-> <<>>]

\* a file of dir_name whose name does not end in .png
NotesFile == [stem |-> <<0, 0, 0>>, ext |-> "txt"]

\* directories a run may start from: nothing there, a stale image of an
\* earlier run, or a stale .png that is no image next to a file that is no .png
InitialDirs ==
    { EmptyDir,
      WriteFile(EmptyDir, file_name(MaxN), "valid"),
      WriteFile(WriteFile(EmptyDir, file_name(1), "corrupt"),
                NotesFile, "corrupt") }

\* the output directory at the start: the earlier run that left an image in
\* dir_name has processed it as well (os.makedirs(..., exist_ok=True) keeps
\* what is there)
StartOutput(d) ==
    [f \in {g \in DOMAIN d : IsPng(g) /\ d[g] = "valid"} |-> "image"]

InitCommon ==
    /\ error = "none"
    /\ dir0 \in InitialDirs
    /\ inDir = dir0
    /\ outDir = StartOutput(dir0)
    /\ dl_queue = <<>>
    /\ dl_futures = <<>>
    /\ dl_yielded = <<>>
    /\ successful_downloads = 0
    /\ failed_downloads = <<>>
    /\ summaryA = NoSummary
    /\ images = <<>>
    /\ pr = <<>>
    /\ pr_queue = <<>>
    /\ pr_futures = <<>>
    /\ pr_yielded = <<>>
    /\ successful_processing = 0
    /\ failed_processing = <<>>
    /\ cpu_workers = 0
    /\ ps = NoSearch

\* main(): nothing has run yet
InitMain ==
    /\ pc = "idle"
    /\ n \in 0..MaxN
    /\ io_workers = 0
    /\ dl = <<>>
    /\ InitCommon

\* download_single_pokemon((i, dir_name, base_url, retry_count)) called directly
InitDirect ==
    /\ pc = "direct"
    /\ n = 0
    /\ io_workers = 0
    /\ \E i \in 1..MaxN, rc \in 0..MaxRetry :
          dl = [k \in {i} |-> [NewDownload(i, rc) EXCEPT !.st = "running"]]
    /\ InitCommon

Init == InitMain \/ InitDirect


\* ------------------------------------------------ download_single_pokemon
\* what one pass of the try block can do: the request and the write succeed
\* (the bytes are an image, or are not), requests raises a RequestException,
\* open() raises OSError, or f.write() raises OSError after open() created
\* the file
Outcomes == {"ok_valid", "ok_corrupt", "request_error", "open_error", "write_error"}

OutcomeClass(o) ==
    IF o \in {"ok_valid", "ok_corrupt"} THEN "ok"
    ELSE IF o = "request_error" THEN "request_error"
    ELSE "os_error"

\* the bytes written before raise_for_status(): an error page lands on disk
FileAfter_write_first(dir, f, o) ==
    CASE o = "ok_valid"    -> WriteFile(dir, f, "valid")
      [] o = "open_error"  -> dir
      [] OTHER             -> WriteFile(dir, f, "corrupt")

\* the input directory after one pass of the try block on file f
FileAfter(dir, f, o) ==
    CASE o = "ok_valid"    -> WriteFile(dir, f, "valid")
      [] o = "ok_corrupt"  -> WriteFile(dir, f, "corrupt")
      [] o = "write_error" -> WriteFile(dir, f, "corrupt")
      [] OTHER             -> dir

\* a last-attempt test that never fires inside the loop: a wait follows every
\* failed attempt
LastAttempt_late(t) == t.attempt = t.retry_count

\* a last-attempt test that is one too early
LastAttempt_early(t) == t.attempt = t.retry_count - 2

\* if attempt == retry_count - 1
LastAttempt(t) == t.attempt = t.retry_count - 1

\* a try block without its return: after a success the loop goes on
download_attempt_no_return(t, f, o) ==
    LET logged == [t EXCEPT !.log = Append(@, OutcomeClass(o))] IN
    CASE OutcomeClass(o) = "ok" ->
            [logged EXCEPT !.attempt = @ + 1]
      [] OutcomeClass(o) = "request_error" ->
            IF LastAttempt(t)
            THEN [logged EXCEPT !.st = "done", !.result = <<FALSE, f>>]
            ELSE [logged EXCEPT !.st = "sleeping"]
      [] OTHER ->
            [logged EXCEPT !.st = "raised"]

\* one pass of the loop body: the try block and its except clause
download_attempt(t, f, o) ==
    LET logged == [t EXCEPT !.log = Append(@, OutcomeClass(o))] IN
    CASE OutcomeClass(o) = "ok" ->
            [logged EXCEPT !.st = "done", !.result = <<TRUE, f>>]
      [] OutcomeClass(o) = "request_error" ->
            IF LastAttempt(t)
            THEN [logged EXCEPT !.st = "done", !.result = <<FALSE, f>>]
            ELSE [logged EXCEPT !.st = "sleeping"]
      [] OTHER ->
            \* OSError is no RequestException: it leaves the function
            [logged EXCEPT !.st = "raised"]

\* time.sleep(1), then the next value of range(retry_count)
download_backoff(t) ==
    [t EXCEPT !.st = "running", !.attempt = @ + 1, !.log = Append(@, "sleep")]

\* the return after the loop
download_loop_exit(t, f) == [t EXCEPT !.st = "done", !.result = <<FALSE, f>>]

Calls(t) == Cardinality({k \in DOMAIN t.log : t.log[k] # "sleep"})
Sleeps(t) == Count(t.log, "sleep")

DownloadAttempt(i) ==
    /\ i \in DOMAIN dl
    /\ dl[i].st = "running"
    /\ dl[i].attempt < dl[i].retry_count
    /\ \E o \in Outcomes :
          /\ dl' = [dl EXCEPT ![i] = download_attempt(dl[i], file_name(i), o)]
          /\ inDir' = FileAfter(inDir, file_name(i), o)
    /\ UNCHANGED <<ps, pc, error, n, io_workers, cpu_workers, dir0, outDir, dl_queue,
                   dl_futures, dl_yielded, successful_downloads,
                   failed_downloads, summaryA, prVars>>

DownloadBackoff(i) ==
    /\ i \in DOMAIN dl
    /\ dl[i].st = "sleeping"
    /\ dl' = [dl EXCEPT ![i] = download_backoff(dl[i])]
    /\ UNCHANGED <<ps, pc, error, n, io_workers, cpu_workers, dir0, inDir, outDir,
                   dl_queue, dl_futures, dl_yielded, successful_downloads,
                   failed_downloads, summaryA, prVars>>

DownloadLoopExit(i) ==
    /\ i \in DOMAIN dl
    /\ dl[i].st = "running"
    /\ dl[i].attempt >= dl[i].retry_count
    /\ dl' = [dl EXCEPT ![i] = download_loop_exit(dl[i], file_name(i))]
    /\ UNCHANGED <<ps, pc, error, n, io_workers, cpu_workers, dir0, inDir, outDir,
                   dl_queue, dl_futures, dl_yielded, successful_downloads,
                   failed_downloads, summaryA, prVars>>

\* the direct call hands its result, or its exception, to the caller
DirectReturn ==
    /\ pc = "direct"
    /\ \E i \in DOMAIN dl :
          /\ dl[i].st \in {"done", "raised"}
          /\ pc' = IF dl[i].st = "done" THEN "returned" ELSE "raised"
          /\ error' = IF dl[i].st = "done" THEN "none" ELSE "task"
    /\ UNCHANGED <<ps, n, io_workers, cpu_workers, dir0, inDir, outDir, dlVars,
                   summaryA, prVars>>

\* --------------------------------------------------------- download_pokemon
\* os.makedirs(dir_name, exist_ok=True) and the download_args list
DownloadSetup ==
    /\ pc = "idle"
    /\ pc' = "dl_submit"
    /\ io_workers' \in 1..MaxWorkers
    /\ dl' = [i \in 1..n |-> NewDownload(i, RETRY_COUNT)]
    /\ dl_yielded' = [i \in 1..n |-> 0]
    /\ UNCHANGED <<ps, error, n, dir0, cpu_workers, dir0, inDir, outDir, dl_queue,
                   dl_futures, successful_downloads, failed_downloads,
                   summaryA, prVars>>

\* os.makedirs raises: nothing has been submitted
DownloadSetupFails ==
    /\ pc = "idle"
    /\ pc' = "crashed"
    /\ error' = "setup"
    /\ UNCHANGED <<ps, n, io_workers, cpu_workers, dir0, inDir, outDir, dlVars,
                   summaryA, prVars>>

\* executor.submit(download_single_pokemon, args), one per args, in order
DownloadSubmit ==
    /\ pc = "dl_submit"
    /\ Len(dl_futures) < n
    /\ LET i == Len(dl_futures) + 1 IN
          /\ dl' = [dl EXCEPT ![i].st = "queued"]
          /\ dl_queue' = Append(dl_queue, i)
          /\ dl_futures' = Append(dl_futures, i)
    /\ UNCHANGED <<ps, pc, error, n, io_workers, cpu_workers, dir0, inDir, outDir,
                   dl_yielded, successful_downloads, failed_downloads,
                   summaryA, prVars>>

\* every args has been submitted: the for loop over as_completed starts
DownloadAwait ==
    /\ pc = "dl_submit"
    /\ Len(dl_futures) = n
    /\ pc' = "dl_collect"
    /\ UNCHANGED <<ps, error, n, io_workers, cpu_workers, dir0, inDir, outDir, dlVars,
                   summaryA, prVars>>

\* tasks a worker thread is executing
DownloadsExecuting == {i \in DOMAIN dl : dl[i].st \in {"running", "sleeping"}}

\* a pool that starts work items without regard to max_workers
ThreadFree_unbounded == TRUE

\* ThreadPoolExecutor(max_workers=max_workers): a thread is free to pull
ThreadFree == Cardinality(DownloadsExecuting) < io_workers

\* a free worker thread pulls the oldest work item
DownloadStart ==
    /\ dl_queue # <<>>
    /\ ThreadFree
    /\ dl' = [dl EXCEPT ![Head(dl_queue)].st = "running"]
    /\ dl_queue' = Tail(dl_queue)
    /\ UNCHANGED <<ps, pc, error, n, io_workers, cpu_workers, dir0, inDir, outDir,
                   dl_futures, dl_yielded, successful_downloads,
                   failed_downloads, summaryA, prVars>>

\* as_completed(futures) may yield future i now
DownloadCompleted(i) == dl[i].st \in {"done", "raised"} /\ dl_yielded[i] = 0

\* a tally whose count depends on the arrival order: a failure resets it
download_tally_reset(result, succ, failed) ==
    IF result[1]
    THEN <<succ + 1, failed>>
    ELSE <<0, Append(failed, result[2])>>

\* a tally without the else branch: failures are not recorded
download_tally_no_else(result, succ, failed) ==
    IF result[1] THEN <<succ + 1, failed>> ELSE <<succ, failed>>

\* success, filename = future.result(); the if/else that tallies it
download_tally(result, succ, failed) ==
    IF result[1]
    THEN <<succ + 1, failed>>
    ELSE <<succ, Append(failed, result[2])>>

\* one pass of "for future in as_completed(futures)"; future.result() raises
\* the task's exception again if the task raised
DownloadCollect ==
    /\ pc = "dl_collect"
    /\ \E i \in DOMAIN dl :
          /\ DownloadCompleted(i)
          /\ dl_yielded' = [dl_yielded EXCEPT ![i] = @ + 1]
          /\ IF dl[i].st = "raised"
             THEN /\ pc' = "dl_unwind"
                  /\ error' = "task"
                  /\ UNCHANGED <<ps, successful_downloads, failed_downloads>>
             ELSE LET r == download_tally(dl[i].result, successful_downloads,
                                          failed_downloads)
                  IN /\ successful_downloads' = r[1]
                     /\ failed_downloads' = r[2]
                     /\ UNCHANGED <<ps, pc, error>>
    /\ UNCHANGED <<ps, n, io_workers, cpu_workers, dir0, inDir, outDir, dl, dl_queue,
                   dl_futures, summaryA, prVars>>

\* a loop that ends once everything is submitted, whatever has been yielded
DownloadsAllYielded_submitted == Len(dl_futures) = n

\* as_completed has nothing left to yield
DownloadsAllYielded == \A i \in Range(dl_futures) : dl_yielded[i] >= 1

\* leaving the with block: shutdown(wait=True) returns once every work item
\* has run and the worker threads have ended
ThreadPoolDrained == dl_queue = <<>> /\ DownloadsExecuting = {}

\* the exception leaves the with block, and so download_pokemon and main
DownloadUnwind ==
    /\ pc = "dl_unwind"
    /\ ThreadPoolDrained
    /\ pc' = "crashed"
    /\ UNCHANGED <<ps, error, n, io_workers, cpu_workers, dir0, inDir, outDir, dlVars,
                   summaryA, prVars>>

\* a pool that is neither read to the end nor waited for: the block is left
\* as soon as everything is submitted
DownloadBlockLeft_no_wait == Len(dl_futures) = n

\* the for loop has ended and the with block has been left
DownloadBlockLeft == DownloadsAllYielded /\ ThreadPoolDrained

\* the loop and the with block are left, the totals are printed
DownloadReturn ==
    /\ pc = "dl_collect"
    /\ DownloadBlockLeft
    /\ pc' = "fetch_complete"
    /\ summaryA' = [total   |-> n,
                    success |-> successful_downloads,
                    failed  |-> Range(failed_downloads)]
    /\ UNCHANGED <<ps, error, n, io_workers, cpu_workers, dir0, inDir, outDir, dlVars,
                   prVars>>

\* ----------------------------------------------------- process_single_image
NewTransform(image) ==
    [image |-> image, st |-> "queued", calls |-> 0, result |-> <<>>]

\* a transform that is run a second time when it fails
process_open_retry(t, content) ==
    IF content = "valid"
    THEN [t EXCEPT !.st = "opened"]
    ELSE IF t.calls < 2
    THEN [t EXCEPT !.calls = @ + 1]
    ELSE [t EXCEPT !.st = "done", !.result = <<FALSE, t.image, "decode_error">>]

\* an except clause that returns the failure without str(e)
process_open_no_detail(t, content) ==
    IF content = "valid"
    THEN [t EXCEPT !.st = "opened"]
    ELSE [t EXCEPT !.st = "done", !.result = <<FALSE, t.image>>]

\* Image.open(path_origin) ... resize: the chain up to the save; a file that
\* is no image raises inside the try block
process_open(t, content) ==
    IF content = "valid"
    THEN [t EXCEPT !.st = "opened"]
    ELSE [t EXCEPT !.st = "done", !.result = <<FALSE, t.image, "decode_error">>]

\* what img_inv.save(saving_path, ...) can do: write the file, raise before
\* anything is on disk, or raise with a truncated file left behind
SaveOutcomes == {"saved", "save_error", "save_error_partial"}

process_save(t, o) ==
    IF o = "saved"
    THEN [t EXCEPT !.st = "done", !.result = <<TRUE, t.image>>]
    ELSE [t EXCEPT !.st = "done", !.result = <<FALSE, t.image, "save_error">>]

OutputAfter(dir, f, o) ==
    CASE o = "saved"              -> WriteFile(dir, f, "image")
      [] o = "save_error_partial" -> WriteFile(dir, f, "partial")
      [] OTHER                    -> dir

TransformsExecuting == {k \in DOMAIN pr : pr[k].st \in {"running", "opened"}}

\* ProcessPoolExecutor(max_workers=max_workers): a process is free to pull
ProcessFree == Cardinality(TransformsExecuting) < cpu_workers

\* a free worker process pulls the oldest work item and calls the function
TransformStart ==
    /\ pc \in {"pr_submit", "pr_collect"}
    /\ pr_queue # <<>>
    /\ ProcessFree
    /\ pr' = [pr EXCEPT ![Head(pr_queue)].st = "running",
                        ![Head(pr_queue)].calls = @ + 1]
    /\ pr_queue' = Tail(pr_queue)
    /\ UNCHANGED <<ps, pc, error, n, io_workers, cpu_workers, dir0, inDir, outDir,
                   dlVars, summaryA, images, pr_futures, pr_yielded,
                   successful_processing, failed_processing>>

TransformOpen(k) ==
    /\ k \in DOMAIN pr
    /\ pr[k].st = "running"
    /\ pr' = [pr EXCEPT ![k] = process_open(pr[k], inDir[pr[k].image])]
    /\ UNCHANGED <<ps, pc, error, n, io_workers, cpu_workers, dir0, inDir, outDir,
                   dlVars, summaryA, images, pr_queue, pr_futures, pr_yielded,
                   successful_processing, failed_processing>>

TransformSave(k) ==
    /\ k \in DOMAIN pr
    /\ pr[k].st = "opened"
    /\ \E o \in SaveOutcomes :
          /\ pr' = [pr EXCEPT ![k] = process_save(pr[k], o)]
          /\ outDir' = OutputAfter(outDir, pr[k].image, o)
    /\ UNCHANGED <<ps, pc, error, n, io_workers, cpu_workers, dir0, inDir,
                   dlVars, summaryA, images, pr_queue, pr_futures, pr_yielded,
                   successful_processing, failed_processing>>

\* ---------------------------------------------------------- process_pokemon
\* [f for f in os.listdir(dir_origin) if f.endswith('.png')], sorted
listing(dir) == sorted({f \in DOMAIN dir : IsPng(f)})

\* tasks of the thread pool that have not run to their end
DownloadsPending == {i \in DOMAIN dl : dl[i].st \in {"queued", "running", "sleeping"}}

\* os.makedirs, the listing and process_args; download_pokemon has returned,
\* so its local variables and the futures it held are gone
ProcessSetup ==
    /\ pc = "fetch_complete"
    /\ pc' = "pr_submit"
    /\ cpu_workers' \in 1..MaxWorkers
    /\ images' = listing(inDir)
    /\ pr' = [k \in 1..Len(images') |-> NewTransform(images'[k])]
    /\ pr_yielded' = [k \in 1..Len(images') |-> 0]
    /\ dl' = [i \in DownloadsPending |-> dl[i]]
    /\ dl_futures' = <<>>
    /\ dl_yielded' = <<>>
    /\ successful_downloads' = 0
    /\ failed_downloads' = <<>>
    /\ io_workers' = 0
    /\ UNCHANGED <<ps, error, n, dir0, inDir, outDir, dl_queue, summaryA, pr_queue,
                   pr_futures, successful_processing, failed_processing>>

\* setup calls that come after the pool has been given its work
ProcessSetupPoint_in_pool == pc = "pr_collect"

\* os.makedirs and os.listdir are the first statements of process_pokemon
ProcessSetupPoint == pc = "fetch_complete"

\* os.makedirs or os.listdir raises: nothing has been submitted
ProcessSetupFails ==
    /\ ProcessSetupPoint
    /\ pc' = "crashed"
    /\ error' = "setup"
    /\ UNCHANGED <<ps, n, io_workers, cpu_workers, dir0, inDir, outDir, dlVars,
                   summaryA, prVars>>

\* executor.submit(process_single_image, args), one per args, in order
ProcessSubmit ==
    /\ pc = "pr_submit"
    /\ Len(pr_futures) < Len(images)
    /\ LET k == Len(pr_futures) + 1 IN
          /\ pr_queue' = Append(pr_queue, k)
          /\ pr_futures' = Append(pr_futures, k)
    /\ UNCHANGED <<ps, pc, error, n, io_workers, cpu_workers, dir0, inDir, outDir,
                   dlVars, summaryA, images, pr, pr_yielded,
                   successful_processing, failed_processing>>

ProcessAwait ==
    /\ pc = "pr_submit"
    /\ Len(pr_futures) = Len(images)
    /\ pc' = "pr_collect"
    /\ UNCHANGED <<ps, error, n, io_workers, cpu_workers, dir0, inDir, outDir, dlVars,
                   summaryA, prVars>>

\* as_completed(futures) may yield future k now
TransformCompleted(k) == pr[k].st = "done" /\ pr_yielded[k] = 0

\* "if result:" for "if result[0]:": a tuple is always true
process_tally_truthy(result, succ, failed) == <<succ + 1, failed>>

\* result = future.result(); the if/else that tallies it
process_tally(result, succ, failed) ==
    IF result[1]
    THEN <<succ + 1, failed>>
    ELSE <<succ, Append(failed, <<result[2], result[3]>>)>>

ProcessCollect ==
    /\ pc = "pr_collect"
    /\ \E k \in DOMAIN pr :
          /\ TransformCompleted(k)
          /\ pr_yielded' = [pr_yielded EXCEPT ![k] = @ + 1]
          /\ LET r == process_tally(pr[k].result, successful_processing,
                                    failed_processing)
             IN /\ successful_processing' = r[1]
                /\ failed_processing' = r[2]
    /\ UNCHANGED <<ps, pc, error, n, io_workers, cpu_workers, dir0, inDir, outDir,
                   dlVars, summaryA, images, pr, pr_queue, pr_futures>>

TransformsAllYielded == \A k \in Range(pr_futures) : pr_yielded[k] >= 1

ProcessPoolDrained == pr_queue = <<>> /\ TransformsExecuting = {}

\* the loop and the with block are left, the totals are printed, main prints
\* its summary and returns
ProcessReturn ==
    /\ pc = "pr_collect"
    /\ TransformsAllYielded
    /\ ProcessPoolDrained
    /\ pc' = "done"
    /\ UNCHANGED <<ps, error, n, io_workers, cpu_workers, dir0, inDir, outDir, dlVars,
                   summaryA, prVars>>

\* ------------------------------------------------------------ specification
Next ==
    \/ DownloadSetup
    \/ DownloadSetupFails
    \/ DownloadSubmit
    \/ DownloadAwait
    \/ DownloadStart
    \/ \E i \in 1..MaxN : DownloadAttempt(i)
    \/ \E i \in 1..MaxN : DownloadBackoff(i)
    \/ \E i \in 1..MaxN : DownloadLoopExit(i)
    \/ DirectReturn
    \/ DownloadCollect
    \/ DownloadUnwind
    \/ DownloadReturn
    \/ ProcessSetup
    \/ ProcessSetupFails
    \/ ProcessSubmit
    \/ ProcessAwait
    \/ TransformStart
    \/ \E k \in 1..(MaxN + 1) : TransformOpen(k)
    \/ \E k \in 1..(MaxN + 1) : TransformSave(k)
    \/ ProcessCollect
    \/ ProcessReturn

Spec == Init /\ [][Next]_vars

\* the interpreter keeps running the caller and the operating system keeps
\* scheduling the pools' workers; whether a setup call fails is not a matter
\* of scheduling
CallerStep ==
    \/ DownloadSetup \/ DownloadSubmit \/ DownloadAwait \/ DownloadCollect
    \/ DownloadUnwind \/ DownloadReturn \/ DirectReturn
    \/ ProcessSetup \/ ProcessSubmit \/ ProcessAwait \/ ProcessCollect
    \/ ProcessReturn

ThreadPoolStep ==
    \/ DownloadStart
    \/ \E i \in 1..MaxN :
          DownloadAttempt(i) \/ DownloadBackoff(i) \/ DownloadLoopExit(i)

ProcessPoolStep ==
    \/ TransformStart
    \/ \E k \in 1..(MaxN + 1) : TransformOpen(k) \/ TransformSave(k)

FairSpec ==
    /\ Spec
    /\ WF_vars(CallerStep)
    /\ WF_vars(ThreadPoolStep)
    /\ WF_vars(ProcessPoolStep)


\* ------------------------------------------------------------------ claims
InPhaseA == pc \in {"dl_submit", "dl_collect", "dl_unwind", "fetch_complete"}
InPhaseB == pc \in {"pr_submit", "pr_collect", "done"}

\* C1: with a pool of max_workers = c >= 1, the number of tasks executing at
\* the same time never exceeds c, in the thread pool of download_pokemon and
\* in the process pool of process_pokemon.
C1_ConcurrencyBound ==
    /\ io_workers >= 1 => Cardinality(DownloadsExecuting) <= io_workers
    /\ cpu_workers >= 1 => Cardinality(TransformsExecuting) <= cpu_workers

\* the thread pool is saturated while a submitted task still waits its turn
C1_Witness ==
    /\ io_workers >= 1
    /\ Cardinality(DownloadsExecuting) = io_workers
    /\ dl_queue # <<>>

\* C2: when a phase is declared complete, every submitted task has been
\* submitted once and its result collected exactly once (none twice, none
\* missing); no result is ever collected twice on the way.
C2_OneResultPerTask ==
    /\ \A i \in DOMAIN dl_yielded : dl_yielded[i] <= 1
    /\ \A k \in DOMAIN pr_yielded : pr_yielded[k] <= 1
    /\ pc = "fetch_complete" =>
          /\ dl_futures = [i \in 1..n |-> i]
          /\ DOMAIN dl_yielded = 1..n
          /\ \A i \in 1..n : dl_yielded[i] = 1 /\ dl[i].st = "done"
          /\ successful_downloads + Len(failed_downloads) = n
    /\ pc = "done" =>
          /\ pr_futures = [k \in 1..Len(images) |-> k]
          /\ DOMAIN pr_yielded = 1..Len(images)
          /\ \A k \in 1..Len(images) : pr_yielded[k] = 1 /\ pr[k].st = "done"
          /\ successful_processing + Len(failed_processing) = Len(images)

\* both phases have been declared complete with several tasks each
C2_Witness ==
    /\ pc = "done"
    /\ summaryA.total >= 2
    /\ Len(images) >= 2
    /\ \A k \in 1..Len(images) : pr_yielded[k] = 1

\* C3: download_pokemon(n) ends with totalItems = n and
\* successful_downloads + len(failed_downloads) = n, for every n >= 0, every
\* subset of failing ids and every arrival order; while it collects, the two
\* tallies add up to the number of results collected so far.
C3_FetchAccounting ==
    /\ pc \in {"dl_collect", "fetch_complete"} =>
          successful_downloads + Len(failed_downloads)
             = Cardinality({i \in DOMAIN dl_yielded : dl_yielded[i] >= 1})
    /\ pc = "fetch_complete" =>
          /\ summaryA.total = n
          /\ successful_downloads + Len(failed_downloads) = n
          /\ summaryA.success + Cardinality(summaryA.failed) = n
    /\ summaryA # NoSummary =>
          summaryA.success + Cardinality(summaryA.failed) = summaryA.total

\* a batch has ended with successes and failures mixed
C3_Witness ==
    /\ pc = "fetch_complete"
    /\ successful_downloads >= 1
    /\ Len(failed_downloads) >= 1


\* the outcomes of the invocations of the request, in order
CallLog(t) == SelectSeq(t.log, LAMBDA e : e # "sleep")

\* k-1 failed attempts, a wait after each, then the success
RetryLog(k) ==
    [j \in 1..(2 * k - 1) |->
        IF j = 2 * k - 1 THEN "ok"
        ELSE IF j % 2 = 1 THEN "request_error" ELSE "sleep"]

\* the request failed on the first k-1 attempts and succeeded on attempt k
FirstSuccessAt(t, k) ==
    /\ Len(CallLog(t)) >= k
    /\ CallLog(t)[k] = "ok"
    /\ \A j \in 1..(k - 1) : CallLog(t)[j] = "request_error"

\* C4: a download task whose attempts fail k-1 times and succeed on attempt
\* k <= retry_count returns (True, file_name) after exactly k invocations with
\* one wait between consecutive attempts and nothing after the success; a task
\* that has not succeeded gives up only when its attempts are used up; when
\* download_pokemon ends, successful_downloads counts exactly these tasks.
C4_RetryUntilFirstSuccess ==
    \A i \in DOMAIN dl :
       LET t == dl[i] IN
       /\ \A k \in 1..Len(CallLog(t)) :
             FirstSuccessAt(t, k) =>
                /\ k <= t.retry_count
                /\ t.log = RetryLog(k)
                /\ Calls(t) = k
                /\ Sleeps(t) = k - 1
                /\ t.st = "done"
                /\ t.result = <<TRUE, file_name(i)>>
       /\ (t.st = "done" /\ t.result[1] = FALSE) => Calls(t) >= t.retry_count
       /\ pc = "fetch_complete" =>
             successful_downloads
                = Cardinality({j \in 1..n : \E k \in 1..RETRY_COUNT :
                                               FirstSuccessAt(dl[j], k)})

\* a direct call with a budget of MaxRetry that succeeded on its second attempt
C4_Witness ==
    \E i \in DOMAIN dl :
       /\ dl[i].retry_count = MaxRetry
       /\ FirstSuccessAt(dl[i], 2)
       /\ dl[i].st = "done"

\* the request failed on every attempt the task made and the task has ended
AlwaysFailed(t) ==
    /\ t.st = "done"
    /\ \A j \in 1..Len(CallLog(t)) : CallLog(t)[j] = "request_error"

\* C5: a download task whose request fails on every attempt returns
\* (False, file_name) after exactly retry_count invocations, for every
\* retry_count >= 1; no task ever makes more than retry_count invocations; and
\* when download_pokemon ends, failed_downloads holds exactly the names of the
\* tasks that returned False.
C5_RetryExhaustion ==
    /\ \A i \in DOMAIN dl :
          LET t == dl[i] IN
          /\ Calls(t) <= t.retry_count
          /\ (AlwaysFailed(t) /\ t.retry_count >= 1) =>
                /\ Calls(t) = t.retry_count
                /\ t.result = <<FALSE, file_name(i)>>
    /\ pc = "fetch_complete" =>
          Range(failed_downloads) = {file_name(i) : i \in {j \in 1..n : AlwaysFailed(dl[j])}}

\* a batch has ended with a task that used up its attempts on the failed list
C5_Witness ==
    /\ pc = "fetch_complete"
    /\ \E i \in 1..n :
          /\ AlwaysFailed(dl[i])
          /\ Calls(dl[i]) = RETRY_COUNT
          /\ file_name(i) \in Range(failed_downloads)


\* C6: no transform task starts and the input directory is not listed until
\* every download task has ended and its result has been collected; a
\* download task and a transform task never execute at the same time.
C6_HardBarrier ==
    /\ (pc = "fetch_complete" \/ InPhaseB) =>
          /\ DownloadsPending = {}
          /\ dl_queue = <<>>
          /\ summaryA.total = n
    /\ pc = "fetch_complete" =>
          \A i \in 1..n : dl[i].st = "done" /\ dl_yielded[i] = 1
    /\ ~InPhaseB =>
          /\ images = <<>>
          /\ pr = <<>>
          /\ pr_queue = <<>>
          /\ cpu_workers = 0
    /\ DownloadsExecuting = {} \/ TransformsExecuting = {}

\* a transform is executing after a phase A that ran several downloads
C6_Witness ==
    /\ TransformsExecuting # {}
    /\ summaryA.total >= 2
    /\ summaryA.success >= 1

\* C7: no error raised inside a download task or a transform task leaves the
\* task: none reaches future.result(), download_pokemon or main.
C7_ErrorsStopAtTaskBoundary ==
    /\ pc # "dl_unwind"
    /\ pc = "crashed" => error = "setup"
    /\ InPhaseA => \A i \in DOMAIN dl : dl[i].st # "raised"

\* the listed input files that are no image
CorruptImages == {f \in Range(images) : inDir[f] # "valid"}

\* the transform tasks whose save raised
SaveFailed == {k \in DOMAIN pr : pr[k].st = "done" /\ pr[k].result[1] = FALSE
                                  /\ pr[k].result[3] = "save_error"}

DecodeFailed == {k \in DOMAIN pr : pr[k].st = "done" /\ pr[k].result[1] = FALSE
                                    /\ pr[k].result[3] = "decode_error"}

\* C8: when process_pokemon ends, the files that failed to decode are exactly
\* the corrupt input files, and in a batch whose only defect is corrupt input
\* the failed list holds exactly the corrupt files, once each, and every other
\* file is counted as a success; no error of a transform task leaves the pool.
C8_TransformFailureIsolation ==
    pc = "done" =>
       /\ error = "none"
       /\ {images[k] : k \in DecodeFailed} = CorruptImages
       /\ \A k \in DOMAIN pr : pr[k].result[2] = images[k]
       /\ SaveFailed = {} =>
             /\ {e[1] : e \in Range(failed_processing)} = CorruptImages
             /\ Len(failed_processing) = Cardinality(CorruptImages)
             /\ successful_processing = Len(images) - Cardinality(CorruptImages)
             /\ \A k \in DOMAIN pr :
                   pr[k].result[1] = (images[k] \notin CorruptImages)

\* a full batch has ended with exactly one corrupt file among good ones
C8_Witness ==
    /\ pc = "done"
    /\ Len(images) = MaxN
    /\ Cardinality(CorruptImages) = 1
    /\ SaveFailed = {}
    /\ successful_processing = MaxN - 1

\* the fetch collaborator of the scenario: ids 1 and 2 succeed at once with
\* image bytes, id 3 fails on every attempt
ScenarioFetch ==
    /\ n = 3
    /\ dir0 = EmptyDir
    /\ dl[1].log = <<"ok">> /\ inDir[file_name(1)] = "valid"
    /\ dl[2].log = <<"ok">> /\ inDir[file_name(2)] = "valid"
    /\ AlwaysFailed(dl[3])

ScenarioSummaryA ==
    [total |-> 3, success |-> 2, failed |-> {file_name(3)}]

\* phase A of the scenario is over and every transform of phase B went well
ScenarioDone ==
    /\ pc = "done"
    /\ n = 3
    /\ dir0 = EmptyDir
    /\ summaryA = ScenarioSummaryA
    /\ \A f \in DOMAIN inDir : inDir[f] = "valid"
    /\ SaveFailed = {}

\* C9: from empty directories, with ids 1 and 2 fetched and id 3 failing on
\* every attempt, phase A ends with total 3, 2 successes, failed {003.png} and
\* exactly 001.png and 002.png on disk; phase B then processes exactly these
\* two, writes two output files and ends with total 2, 2 successes, no failure.
C9_EndToEnd ==
    /\ (pc = "fetch_complete" /\ n = 3 /\ ScenarioFetch) =>
          /\ summaryA = ScenarioSummaryA
          /\ successful_downloads = 2
          /\ failed_downloads = <<file_name(3)>>
          /\ DOMAIN inDir = {file_name(1), file_name(2)}
    /\ ScenarioDone =>
          /\ images = <<file_name(1), file_name(2)>>
          /\ Len(pr) = 2
          /\ successful_processing = 2
          /\ failed_processing = <<>>
          /\ DOMAIN outDir = {file_name(1), file_name(2)}
          /\ \A f \in DOMAIN outDir : outDir[f] = "image"

\* the scenario has run to its end
C9_Witness ==
    /\ ScenarioDone
    /\ successful_processing = 2
    /\ DOMAIN inDir = {file_name(1), file_name(2)}

\* C10: under fair scheduling, every submitted task ends with one outcome, the
\* work queues run empty, and each phase that has started completes.
C10_NoTaskDropped ==
    /\ \A i \in 1..MaxN :
          (i \in DOMAIN dl /\ dl[i].st = "queued")
             ~> (i \in DOMAIN dl => dl[i].st \in {"done", "raised"})
    /\ (dl_queue # <<>>) ~> (dl_queue = <<>>)
    /\ (pr_queue # <<>>) ~> (pr_queue = <<>>)
    /\ (pc = "dl_submit") ~> (pc = "fetch_complete")
    /\ (pc = "pr_submit") ~> (pc = "done")

\* C11: when a setup call raises (os.makedirs in download_pokemon, os.makedirs
\* or os.listdir in process_pokemon) the error reaches the caller and no task
\* of that phase has been submitted or started: the run ends there.
C11_SetupErrorsPrecedeWork ==
    error = "setup" =>
       /\ pc = "crashed"
       /\ images = <<>> /\ pr = <<>> /\ pr_queue = <<>> /\ pr_futures = <<>>
       /\ TransformsExecuting = {}
       /\ outDir = StartOutput(dir0)
       /\ summaryA = NoSummary =>
             /\ dl = <<>> /\ dl_queue = <<>> /\ dl_futures = <<>>
             /\ inDir = dir0
       /\ summaryA # NoSummary => DownloadsPending = {}

\* process_pokemon's setup failed after a phase A that had downloads to do
C11_Witness ==
    /\ error = "setup"
    /\ pc = "crashed"
    /\ summaryA.total >= 1

\* the transform tasks that have ended in failure
TransformsFailed == {k \in DOMAIN pr : pr[k].st = "done" /\ pr[k].result[1] = FALSE}

\* file f of the output directory is as it was when the run started
OutputUntouched(f) ==
    IF f \in DOMAIN StartOutput(dir0)
    THEN f \in DOMAIN outDir /\ outDir[f] = StartOutput(dir0)[f]
    ELSE f \notin DOMAIN outDir

\* C12: a transform task that fails (decode error or I/O error) returns a
\* failed result with the error message and has written nothing to the output
\* file of its image; the output files of the other tasks are not affected.
C12_NoOutputOnFailure ==
    /\ \A k \in TransformsFailed :
          /\ pr[k].result = <<FALSE, images[k], pr[k].result[3]>>
          /\ OutputUntouched(images[k])
    /\ \A f \in DOMAIN outDir :
          OutputUntouched(f) \/ \E k \in DOMAIN pr : images[k] = f /\ pr[k].st = "done"

\* dir_name of download_pokemon and dir_origin of process_pokemon
InputDir == "pokemon_dataset"
\* dir_name of process_pokemon
OutputDir == "pokemon_processed"

\* os.path.join(dir_name, file_name): the file fetch task i writes
img_path(i) == <<InputDir, file_name(i)>>
\* os.path.join(dir_origin, image): the file a transform task reads
path_origin(image) == <<InputDir, image>>
\* os.path.join(dir_name, image): the file a transform task writes
saving_path(image) == <<OutputDir, image>>

FileChanged(before, after, f) ==
    \/ (f \in DOMAIN before) # (f \in DOMAIN after)
    \/ f \in DOMAIN before /\ f \in DOMAIN after /\ before[f] # after[f]

\* no two tasks of a phase have the same written path, and no transform reads
\* what a transform writes
DisjointPaths ==
    /\ \A i, j \in DOMAIN dl : i # j => img_path(i) # img_path(j)
    /\ \A k, l \in DOMAIN pr :
          /\ k # l => saving_path(pr[k].image) # saving_path(pr[l].image)
          /\ path_origin(pr[k].image) # saving_path(pr[l].image)

\* a step that changes a file is the step of the one running task that owns
\* its path; fetch steps leave the output directory alone and transform steps
\* leave the input directory alone
OwnFileOnly ==
    /\ \A f \in DOMAIN inDir \cup DOMAIN inDir' :
          FileChanged(inDir, inDir', f) =>
             \E i \in DOMAIN dl :
                /\ img_path(i) = <<InputDir, f>>
                /\ dl[i].st = "running" /\ dl'[i] # dl[i]
                /\ \A j \in DOMAIN dl \ {i} : dl'[j] = dl[j]
    /\ \A f \in DOMAIN outDir \cup DOMAIN outDir' :
          FileChanged(outDir, outDir', f) =>
             \E k \in DOMAIN pr :
                /\ saving_path(pr[k].image) = <<OutputDir, f>>
                /\ path_origin(pr[k].image) = <<InputDir, f>>
                /\ pr[k].st = "opened" /\ pr'[k] # pr[k]
                /\ \A l \in DOMAIN pr \ {k} : pr'[l] = pr[l]
    /\ dl' # dl => outDir' = outDir
    /\ pr' # pr => inDir' = inDir

\* C13: no two tasks of one phase write the same file path and no task reads
\* a file another task of its phase writes: fetch task i writes only
\* inputDir/<i zero-padded>.png, the transform task of file f reads only
\* inputDir/f and writes only outputDir/f.
C13_NoCrossTaskFileSharing == []DisjointPaths /\ [][OwnFileOnly]_vars

\* two fetch tasks of this run wrote their files, and the two transform tasks
\* of those files have both read their inputs and are both about to write
C13_Witness ==
    /\ dir0 = EmptyDir /\ summaryA.success = 2
    /\ \E k, l \in DOMAIN pr :
          /\ k # l /\ pr[k].st = "opened" /\ pr[l].st = "opened"
          /\ {pr[k].image, pr[l].image} = {file_name(1), file_name(2)}

\* the state of a run of main()
RunState ==
    CASE pc = "idle" -> "Idle"
      [] pc \in {"dl_submit", "dl_collect", "dl_unwind"} -> "Fetching"
      [] pc = "fetch_complete" -> "FetchComplete"
      [] pc \in {"pr_submit", "pr_collect"} -> "Processing"
      [] pc = "done" -> "Done"
      [] pc = "crashed" -> "Aborted"
      [] OTHER -> "NoRun"

RunOrder ==
    {<<"Idle", "Fetching">>, <<"Fetching", "FetchComplete">>,
     <<"FetchComplete", "Processing">>, <<"Processing", "Done">>}

\* a change of run state is the next arrow of the chain, or a setup error
RunStateStep ==
    RunState' # RunState =>
       \/ <<RunState, RunState'>> \in RunOrder
       \/ RunState' = "Aborted" /\ error' = "setup"

\* C14: barring setup errors, a run of main() goes through Idle, Fetching,
\* FetchComplete, Processing, Done in that order, none skipped or revisited,
\* and reaches Done whatever items fail in either phase.
C14_RunSequencing ==
    /\ [][RunStateStep]_vars
    /\ (pc = "idle") ~> (RunState = "Done" \/ error = "setup")

\* the number of attempts among the first k entries of the log
CallsUpTo(t, k) == Cardinality({j \in 1..k : t.log[j] # "sleep"})

\* C15: in download_single_pokemon the wait comes after every failed attempt
\* that is followed by another attempt, never after the last allowed attempt
\* and never after a success: a task that uses up its retry_count >= 1 attempts
\* waits retry_count - 1 times, a task that succeeds on attempt k waits k - 1
\* times.
C15_BackoffPlacement ==
    \A i \in DOMAIN dl :
       LET t == dl[i] IN
       /\ \A k \in DOMAIN t.log :
             /\ t.log[k] = "sleep" =>
                   /\ k > 1 /\ t.log[k - 1] = "request_error"
                   /\ CallsUpTo(t, k) < t.retry_count
                   /\ k < Len(t.log) => t.log[k + 1] # "sleep"
             /\ (t.log[k] # "sleep" /\ k < Len(t.log)) =>
                   /\ t.log[k] = "request_error"
                   /\ t.log[k + 1] = "sleep"
             /\ CallsUpTo(t, k) = t.retry_count => k = Len(t.log)
       /\ t.st = "sleeping" =>
             /\ t.log[Len(t.log)] = "request_error"
             /\ Calls(t) < t.retry_count
       /\ (t.st = "running" /\ t.log # <<>>) => t.log[Len(t.log)] = "sleep"
       /\ (t.st \in {"done", "raised"} /\ t.log # <<>>) =>
             /\ t.log[Len(t.log)] # "sleep"
             /\ Sleeps(t) = Calls(t) - 1
       /\ AlwaysFailed(t) =>
             /\ Calls(t) = t.retry_count
             /\ t.retry_count >= 1 => Sleeps(t) = t.retry_count - 1
             /\ t.retry_count = 0 => Sleeps(t) = 0
       /\ \A k \in 1..Len(CallLog(t)) : FirstSuccessAt(t, k) => Sleeps(t) = k - 1

\* a direct call with MaxRetry attempts that all failed has returned after
\* MaxRetry - 1 waits
C15_Witness ==
    /\ pc = "returned" /\ 1 \in DOMAIN dl
    /\ dl[1].retry_count = MaxRetry /\ AlwaysFailed(dl[1])
    /\ Calls(dl[1]) = MaxRetry
    /\ Sleeps(dl[1]) = MaxRetry - 1

\* the number of entries of the failed list that name image f
FailedEntries(f) ==
    Cardinality({j \in DOMAIN failed_processing : failed_processing[j][1] = f})

\* C16: a transform is never retried: each enumerated input file gets exactly
\* one invocation of process_single_image, whether it succeeds or fails, and
\* its outcome is recorded exactly once in the summary of the phase.
C16_TransformsNeverRetried ==
    /\ Len(pr) = Len(images)
    /\ \A k \in DOMAIN pr :
          /\ pr[k].image = images[k]
          /\ \A l \in DOMAIN pr : images[l] = images[k] => l = k
          /\ pr[k].calls = (IF pr[k].st = "queued" THEN 0 ELSE 1)
          /\ pr_yielded[k] <= 1
          /\ FailedEntries(images[k])
                = (IF pr_yielded[k] = 1 /\ ~pr[k].result[1] THEN 1 ELSE 0)
    /\ successful_processing
          = Cardinality({k \in DOMAIN pr : pr_yielded[k] = 1 /\ pr[k].result[1]})
    /\ pc = "done" =>
          /\ \A k \in DOMAIN pr :
                pr[k].st = "done" /\ pr[k].calls = 1 /\ pr_yielded[k] = 1
          /\ successful_processing + Len(failed_processing) = Len(images)

\* the phase has ended with a failed decode, a failed save and a success
C16_Witness ==
    /\ pc = "done"
    /\ DecodeFailed # {} /\ SaveFailed # {}
    /\ successful_processing >= 1
    /\ Len(failed_processing) = 2

\* the ids that ended phase A as failures, by file name
FetchFailed == IF summaryA = NoSummary THEN {} ELSE summaryA.failed

\* C17: the transform tasks submitted by process_pokemon are exactly the files
\* with the .png extension that are in the input directory when it is listed,
\* not the successes of the fetch phase: an id that failed in the fetch phase
\* is processed when a file for it is already there, and is absent from the
\* transform phase, and not counted as a failure there, when there is none.
C17_InputIsDirectoryListing ==
    InPhaseB =>
       /\ Range(images) = {f \in DOMAIN inDir : f.ext = "png"}
       /\ \A k, l \in DOMAIN images : k < l => NameLess(images[k], images[l])
       /\ Range(pr_futures) \subseteq DOMAIN pr
       /\ \A k \in DOMAIN pr : pr[k].image = images[k]
       /\ pc \in {"pr_collect", "done"} => Range(pr_futures) = DOMAIN images
       /\ \A f \in FetchFailed :
             /\ f \in DOMAIN inDir => f \in Range(images)
             /\ f \notin DOMAIN inDir =>
                   /\ f \notin Range(images)
                   /\ FailedEntries(f) = 0
       /\ NotesFile \notin Range(images)

\* the transform phase has ended; one id failed in the fetch phase and was
\* processed from the file an earlier run left, another failed and has no file
C17_Witness ==
    /\ pc = "done"
    /\ \E f \in FetchFailed : f \in Range(images) /\ f \in DOMAIN dir0
    /\ \E f \in FetchFailed : f \notin DOMAIN inDir

\* the results the tasks of each phase have returned
DownloadResults == {dl[i].result : i \in {j \in DOMAIN dl : dl[j].st = "done"}}
TransformResults == {pr[k].result : k \in {l \in DOMAIN pr : pr[l].st = "done"}}

\* a result tuple with a third component, the error message
HasErrorDetail(result) == Len(result) = 3

DownloadsTallied == {i \in DOMAIN dl_yielded : dl_yielded[i] >= 1}
TransformsTallied == {k \in DOMAIN pr_yielded : pr_yielded[k] >= 1}

\* C19: the success count and the set of failed ids of download_pokemon and
\* of process_pokemon are determined by the outcomes of the tasks alone: in
\* every interleaving and every arrival order they are the number of tasks
\* that returned success and the names of the tasks that returned failure.
C19_OrderIndependentSummary ==
    /\ pc \in {"dl_collect", "fetch_complete"} =>
          /\ successful_downloads
                = Cardinality({i \in DownloadsTallied : dl[i].result[1]})
          /\ Range(failed_downloads)
                = {file_name(i) : i \in {j \in DownloadsTallied : ~dl[j].result[1]}}
          /\ Len(failed_downloads) = Cardinality(Range(failed_downloads))
    /\ pc = "fetch_complete" =>
          /\ DownloadsTallied = 1..n
          /\ summaryA.success = Cardinality({i \in 1..n : dl[i].result[1]})
          /\ summaryA.failed = {file_name(i) : i \in {j \in 1..n : ~dl[j].result[1]}}
    /\ InPhaseB =>
          /\ successful_processing
                = Cardinality({k \in TransformsTallied : pr[k].result[1]})
          /\ Range(failed_processing)
                = {<<images[k], pr[k].result[3]>> :
                      k \in {l \in TransformsTallied : ~pr[l].result[1]}}
          /\ Len(failed_processing) = Cardinality(Range(failed_processing))
    /\ pc = "done" => TransformsTallied = DOMAIN images

\* the fetch phase has ended with one success and two failures whose results
\* arrived against the order of submission
C19_Witness ==
    /\ pc = "fetch_complete"
    /\ successful_downloads = 1
    /\ failed_downloads = <<file_name(3), file_name(1)>>

\* ------------------------------------------------- test.py: parallel_search
MaxLen == 4
MaxCores == 3

Min(a, b) == IF a <= b THEN a ELSE b

\* data[start:end] for start, end >= 0: both bounds are clamped to len(data)
\* and an empty range gives the empty list
Slice(data, start, end) ==
    LET lo == Min(start, Len(data))
        hi == Min(end, Len(data))
    IN IF lo >= hi THEN <<>> ELSE SubSeq(data, lo + 1, hi)

\* an end that gives the last chunk the same size as the others
chunk_end_no_remainder(start, i, chunk_size, n_cores, len) == start + chunk_size

\* end = start + chunk_size if i < n_cores - 1 else len(data)
chunk_end(start, i, chunk_size, n_cores, len) ==
    IF i < n_cores - 1 THEN start + chunk_size ELSE len

\* the lists over {0, 1} of length at most MaxLen
DataLists == UNION {[1..m -> 0..1] : m \in 0..MaxLen}

InitSearch ==
    /\ pc = "search"
    /\ error = "none"
    /\ n = 0 /\ io_workers = 0 /\ cpu_workers = 0
    /\ dir0 = EmptyDir /\ inDir = EmptyDir /\ outDir = EmptyDir
    /\ dl = <<>> /\ dl_queue = <<>> /\ dl_futures = <<>> /\ dl_yielded = <<>>
    /\ successful_downloads = 0 /\ failed_downloads = <<>>
    /\ summaryA = NoSummary
    /\ images = <<>> /\ pr = <<>> /\ pr_queue = <<>> /\ pr_futures = <<>>
    /\ pr_yielded = <<>>
    /\ successful_processing = 0 /\ failed_processing = <<>>
    /\ \E data \in DataLists, target \in 0..1, n_cores \in 1..MaxCores :
          ps = [NoSearch EXCEPT !.step = "called", !.data = data,
                                !.target = target, !.n_cores = n_cores]

pipelineVars ==
    <<pc, error, n, io_workers, cpu_workers, dir0, inDir, outDir, dlVars,
      summaryA, prVars>>

\* chunk_size = len(data) // n_cores; chunks = []
SearchChunkSize ==
    /\ ps.step = "called"
    /\ ps' = [ps EXCEPT !.step = "chunking",
                        !.chunk_size = Len(ps.data) \div ps.n_cores,
                        !.i = 0, !.chunks = <<>>]
    /\ UNCHANGED pipelineVars

\* one pass of "for i in range(n_cores)"
SearchAppendChunk ==
    /\ ps.step = "chunking"
    /\ ps.i < ps.n_cores
    /\ LET start == ps.i * ps.chunk_size
           end   == chunk_end(start, ps.i, ps.chunk_size, ps.n_cores, Len(ps.data))
       IN ps' = [ps EXCEPT !.chunks = Append(@, <<Slice(ps.data, start, end),
                                                  ps.target, ps.i>>),
                           !.i = @ + 1]
    /\ UNCHANGED pipelineVars

\* range(n_cores) is used up: the list of chunks is complete
SearchChunksBuilt ==
    /\ ps.step = "chunking"
    /\ ps.i = ps.n_cores
    /\ ps' = [ps EXCEPT !.step = "chunked"]
    /\ UNCHANGED pipelineVars

RECURSIVE search_in_chunk(_, _, _)
\* for value in chunk: if value == target: return (True, chunk_id); after the
\* loop return (False, chunk_id)
search_in_chunk(chunk, target, chunk_id) ==
    IF chunk = <<>> THEN <<FALSE, chunk_id>>
    ELSE IF Head(chunk) = target THEN <<TRUE, chunk_id>>
    ELSE search_in_chunk(Tail(chunk), target, chunk_id)

\* what worker w computes from its chunk tuple
worker(w) ==
    search_in_chunk(ps.chunks[w][1], ps.chunks[w][2], ps.chunks[w][3])

\* one pass of "for chunk_data in chunks": p = mp.Process(...); p.start()
SearchStartProcess ==
    /\ ps.step = "chunked"
    /\ Len(ps.processes) < ps.n_cores
    /\ ps' = [ps EXCEPT !.processes = Append(@, "running")]
    /\ UNCHANGED pipelineVars

\* the child runs search_in_chunk and resultado_queue.put(resultado): the
\* item is in the buffer of the child's queue, not yet in the pipe
WorkerPut(w) ==
    /\ w \in DOMAIN ps.processes
    /\ ps.processes[w] = "running"
    /\ ps' = [ps EXCEPT !.processes[w] = "buffered"]
    /\ UNCHANGED pipelineVars

\* the feeder thread of the child's queue writes the item to the shared pipe,
\* one whole message at a time under the queue's write lock
WorkerFlush(w) ==
    /\ w \in DOMAIN ps.processes
    /\ ps.processes[w] = "buffered"
    /\ ps' = [ps EXCEPT !.processes[w] = "flushed",
                        !.queue = Append(@, worker(w))]
    /\ UNCHANGED pipelineVars

\* a child that ends without waiting for its feeder thread
WorkerMayExit_unflushed(w) == ps.processes[w] \in {"buffered", "flushed"}

\* a child process ends only after its queue's feeder thread has written all
\* buffered items (the queue joins the thread when the process exits)
WorkerMayExit(w) == ps.processes[w] = "flushed"

WorkerExit(w) ==
    /\ w \in DOMAIN ps.processes
    /\ WorkerMayExit(w)
    /\ ps' = [ps EXCEPT !.processes[w] = "exited"]
    /\ UNCHANGED pipelineVars

\* one pass of "for p in processes: p.join()": returns when p has ended
SearchJoin ==
    /\ ps.step \in {"chunked", "joining"}
    /\ Len(ps.processes) = ps.n_cores
    /\ ps.joined < ps.n_cores
    /\ ps.processes[ps.joined + 1] = "exited"
    /\ ps' = [ps EXCEPT !.step = "joining", !.joined = @ + 1]
    /\ UNCHANGED pipelineVars

\* queue.empty() in the parent: nothing is readable in the pipe
queue_empty(q) == q = <<>>

\* one pass of "while not queue.empty(): results.append(queue.get())"
SearchDrain ==
    /\ ps.step \in {"joining", "draining"}
    /\ ps.joined = ps.n_cores
    /\ ~queue_empty(ps.queue)
    /\ ps' = [ps EXCEPT !.step = "draining",
                        !.results = Append(@, Head(ps.queue)),
                        !.queue = Tail(@)]
    /\ UNCHANGED pipelineVars

RECURSIVE show_results(_)
\* for found, chunk_id in results: if found: print found, break; else: print
\* not found
show_results(results) ==
    IF results = <<>> THEN <<"no encontrado">>
    ELSE IF Head(results)[1] THEN <<"encontrado", Head(results)[2]>>
    ELSE show_results(Tail(results))

\* the drain loop has ended; the outcome is printed
SearchReport ==
    /\ ps.step \in {"joining", "draining"}
    /\ ps.joined = ps.n_cores
    /\ queue_empty(ps.queue)
    /\ ps' = [ps EXCEPT !.step = "reported", !.report = show_results(ps.results)]
    /\ UNCHANGED pipelineVars

NextSearch ==
    \/ SearchChunkSize
    \/ SearchAppendChunk
    \/ SearchChunksBuilt
    \/ SearchStartProcess
    \/ \E w \in 1..MaxCores : WorkerPut(w)
    \/ \E w \in 1..MaxCores : WorkerFlush(w)
    \/ \E w \in 1..MaxCores : WorkerExit(w)
    \/ SearchJoin
    \/ SearchDrain
    \/ SearchReport

SpecSearch == InitSearch /\ [][NextSearch]_vars

RECURSIVE JoinChunks(_, _)
\* the data of the first k chunks, one after the other
JoinChunks(chunks, k) ==
    IF k = 0 THEN <<>> ELSE JoinChunks(chunks, k - 1) \o chunks[k][1]

\* the number of chunks that hold position p of data
Holders(p) ==
    Cardinality({j \in DOMAIN ps.chunks :
                    /\ Len(JoinChunks(ps.chunks, j - 1)) < p
                    /\ p <= Len(JoinChunks(ps.chunks, j))})

\* C20: for every data list and every n_cores >= 1 the chunks built by
\* parallel_search are contiguous, carry the ids 0..n_cores-1 and partition
\* data: joined in id order they are data, every element is in exactly one
\* chunk, the first n_cores-1 chunks have len(data)//n_cores elements and the
\* last one has the rest, also when len(data) < n_cores.
C20_ChunksPartitionData ==
    ps.step \in {"chunking", "chunked"} =>
       LET chunks == ps.chunks
           size   == Len(ps.data) \div ps.n_cores
       IN /\ Len(chunks) = ps.i
          /\ \A j \in DOMAIN chunks :
                /\ chunks[j][3] = j - 1
                /\ chunks[j][2] = ps.target
                /\ j < ps.n_cores => Len(chunks[j][1]) = size
                /\ chunks[j][1]
                      = SubSeq(ps.data, Len(JoinChunks(chunks, j - 1)) + 1,
                               Len(JoinChunks(chunks, j)))
          /\ ps.step = "chunked" =>
                /\ Len(chunks) = ps.n_cores
                /\ JoinChunks(chunks, ps.n_cores) = ps.data
                /\ Len(chunks[ps.n_cores][1])
                      = Len(ps.data) - (ps.n_cores - 1) * size
                /\ \A p \in 1..Len(ps.data) : Holders(p) = 1

\* the chunks are built for a list that does not divide evenly
C20_Witness ==
    /\ ps.step = "chunked"
    /\ ps.n_cores = MaxCores
    /\ Len(ps.data) = MaxLen
    /\ Len(ps.data) % ps.n_cores # 0
    /\ Len(ps.chunks[ps.n_cores][1]) > ps.chunk_size

\* the chunks are built for a list shorter than the number of cores
C20_WitnessShort ==
    /\ ps.step = "chunked"
    /\ 0 < Len(ps.data) /\ Len(ps.data) < ps.n_cores
    /\ ps.chunk_size = 0

\* the results that have reached the parent or wait in the pipe
Delivered == ps.results \o ps.queue

\* the number of delivered results that carry chunk id c
ResultsOf(c) == Cardinality({j \in DOMAIN Delivered : Delivered[j][2] = c})

\* C21: once all worker processes have been started and joined, the drain loop
\* collects exactly one (found, chunk_id) result per worker, and
\* parallel_search reports the target as found if and only if it occurs in
\* data, in every interleaving of the workers and of their writes to the queue.
C21_OneResultPerWorker ==
    /\ ps.joined <= Len(ps.processes)
    /\ \A w \in 1..ps.joined : ps.processes[w] = "exited"
    /\ (ps.step \in {"joining", "draining", "reported"} /\ ps.joined = ps.n_cores) =>
          /\ Len(ps.processes) = ps.n_cores
          /\ Len(Delivered) = ps.n_cores
          /\ \A w \in 1..ps.n_cores :
                /\ ResultsOf(w - 1) = 1
                /\ \E j \in DOMAIN Delivered : Delivered[j] = worker(w)
    /\ ps.step = "reported" =>
          /\ ps.queue = <<>>
          /\ Len(ps.results) = ps.n_cores
          /\ (ps.report[1] = "encontrado")
                <=> (\E k \in DOMAIN ps.data : ps.data[k] = ps.target)
          /\ ps.report[1] = "encontrado" =>
                /\ Len(ps.report) = 2
                /\ \E w \in 1..ps.n_cores :
                      /\ ps.report[2] = w - 1
                      /\ \E k \in DOMAIN ps.chunks[w][1] :
                            ps.chunks[w][1][k] = ps.target
          /\ ps.report[1] # "encontrado" => ps.report = <<"no encontrado">>

\* MaxCores workers have delivered their results against the order of the
\* chunks, and the target, held by one chunk only, is reported as found
C21_Witness ==
    /\ ps.step = "reported"
    /\ ps.n_cores = MaxCores
    /\ ps.results[1][2] = MaxCores - 1
    /\ ps.report = <<"encontrado", 0>>
    /\ Cardinality({k \in DOMAIN ps.data : ps.data[k] = ps.target}) = 1

\* the target is not in data and is reported as not found
C21_WitnessAbsent ==
    /\ ps.step = "reported"
    /\ ps.n_cores = MaxCores /\ Len(ps.data) = MaxLen
    /\ ps.report = <<"no encontrado">>

====
